---- MODULE Spec2Model ----
(***************************************************************************)
(* A model of the portfolio site's behavioural units:                      *)
(*   - the two proxy route handlers (GitHub stats, dev.to articles),       *)
(*   - validateContactForm,                                                *)
(*   - the ContactForm component (change / blur / submit / settle).        *)
(* Strings that the code inspects character by character (form fields)     *)
(* are sequences of one-character strings.                                 *)
(***************************************************************************)
EXTENDS Integers, Sequences, FiniteSets, TLC

VARIABLES
    \* ---- proxy route handlers (src/app/api/.../route.ts) ----
    route,        \* which handler serves the request: "github" | "devto"
    username,     \* searchParams.get('username'): Null, "" or a name
    pc,           \* position of the handler (which await it is suspended at)
    issued,       \* outbound requests issued so far, in order
    inflight,     \* outbound requests issued and not yet settled
    upstream,     \* what each settled outbound request produced, in order
    response,     \* the NextResponse returned (NoResponse until then)
    userData,     \* parsed body of the user request
    repos,        \* parsed body of the repos request ([] until then)
    \* ---- validateContactForm as a pure function ----
    vData,        \* the ContactFormData argument
    vResult,      \* the ContactFormValidation returned (NoResult before the call)
    \* ---- ContactForm component ----
    formData,     \* useState formData
    validation,   \* useState validation
    status,       \* useState status
    touched,      \* useState touched (the set of keys mapped to true)
    hasOnSubmit,  \* whether the onSubmit prop is given
    pending,      \* handleSubmit is suspended at `await onSubmit(formData)`
    calls,        \* arguments of the onSubmit calls made so far
    relay,        \* how the form relay answered the last settled onSubmit call
    lastEvent,    \* the handler that ran last
    \* ---- lib/performance: device capability and presets ----
    dEnv,         \* what the browser exposes (window, WebGL, navigator)
    dArg,         \* the `quality` argument of getPerformanceConfig
    dLevel,       \* what detectDeviceCapability returned ("none" before)
    dConfig,      \* what getPerformanceConfig returned (NoConfig before)
    \* ---- useAdaptiveQuality hook ----
    aqQuality,    \* useState quality
    aqConfig,     \* useState config
    aqFps,        \* useState fps
    frameCount,   \* frames counted by the running effect since the last sample
    elapsed,      \* time of the last frame minus lastTime, in ms
    aqPrev,       \* quality before the last event
    aqEvent,      \* the last event: "mount" | "frame" | "sample" | "setQuality"
    \* ---- GitHubActivity.fetchGitHubData ----
    gaPc,         \* "idle" | "awaitFetch" | "awaitBody" | "done"
    loading,      \* useState loading
    gaError,      \* useState error (Null or a message)
    gaStats,      \* whether setStats has stored a GitHubStats value
    gaRes,        \* status of the response fetch resolved with (0: none yet)
    gaClock,      \* ms since the timeout was armed
    timerArmed,   \* the setTimeout is pending (not fired, not cleared)
    \* ---- Blogs section over the dev.to handler ----
    bArticles,    \* the article list dev.to answers with
    bMaxPosts,    \* the maxPosts prop
    bResponse,    \* what /api/devto answered (NoResponse before)
    bState,       \* useState state: [blogs, loading, error]
    \* ---- responsive breakpoints ----
    bpWidth,      \* the viewport width passed to the three functions
    bpDone,       \* which of the three functions have been called
    bpName,       \* what getBreakpoint returned
    bpConfig,     \* what getBreakpointConfig returned
    bpMatching,   \* the breakpoints b for which matchesBreakpoint(width, b)
    \* ---- the figures of the GitHub handler as functions of the fetched data ----
    rsRepos,      \* the repos fetched
    rsStats,      \* [computed, totalStars, topLanguages]
    sContribs,    \* allYearsData.contributions
    sToday,       \* today
    sStreaks,     \* [computed, currentStreak, longestStreak]
    \* ---- NetworkGraph ----
    ngMaxNodes,   \* performanceConfig.maxNodes of the current props
    ngVisible,    \* visibleNodes of the last render
    ngConns,      \* connections of the last render
    ngFresh,      \* the last render was made with the current props
    \* ---- Hero ----
    hMounted,     \* useState mounted
    hHasWebGL,    \* useState hasWebGL
    hMatches,     \* useMediaQuery state for (min-width: 768px)
    hReduced,     \* what useReducedMotion returns
    hWidth,       \* the width of the viewport, in px
    hGl,          \* what getContext gives here: "context" | "null" | "throws"
    \* ---- ThemeProvider ----
    theme,        \* useState theme
    tMounted,     \* useState mounted
    tStored,      \* localStorage.getItem('theme') (Null when absent)
    tSystemLight, \* matchMedia('(prefers-color-scheme: light)').matches
    tRoot,        \* the classes of document.documentElement
    tPending,     \* a render was committed whose effects have not run yet
    tInitial,     \* the localStorage content the page started with
    tCalled       \* toggleTheme or setTheme has been called

proxyVars == <<route, username, pc, issued, inflight, upstream, response, userData, repos>>
valVars == <<vData, vResult>>
formVars ==
    <<formData, validation, status, touched, hasOnSubmit, pending, calls, relay, lastEvent>>
deviceVars == <<dEnv, dArg, dLevel, dConfig>>
adaptiveVars == <<aqQuality, aqConfig, aqFps, frameCount, elapsed, aqPrev, aqEvent>>
activityVars == <<gaPc, loading, gaError, gaStats, gaRes, gaClock, timerArmed>>
blogVars == <<bArticles, bMaxPosts, bResponse, bState>>
bpVars == <<bpWidth, bpDone, bpName, bpConfig, bpMatching>>
repoVars == <<rsRepos, rsStats>>
streakVars == <<sContribs, sToday, sStreaks>>
pureVars == <<blogVars, bpVars, repoVars, streakVars>>
graphVars == <<ngMaxNodes, ngVisible, ngConns, ngFresh>>
heroVars == <<hMounted, hHasWebGL, hMatches, hReduced, hWidth, hGl>>
themeVars ==
    <<theme, tMounted, tStored, tSystemLight, tRoot, tPending, tInitial, tCalled>>
uiVars == <<graphVars, heroVars, themeVars>>
vars ==
    <<proxyVars, valVars, formVars, deviceVars, adaptiveVars, activityVars, pureVars,
      uiVars>>

\* what the handlers of one unit leave alone: the state of the other units
notProxy == <<valVars, formVars, deviceVars, adaptiveVars, activityVars, pureVars,
    uiVars>>
notVal == <<proxyVars, formVars, deviceVars, adaptiveVars, activityVars, pureVars,
    uiVars>>
notForm == <<proxyVars, valVars, deviceVars, adaptiveVars, activityVars, pureVars,
    uiVars>>
notDevice == <<proxyVars, valVars, formVars, adaptiveVars, activityVars, pureVars,
    uiVars>>
notAdaptive == <<proxyVars, valVars, formVars, deviceVars, activityVars, pureVars,
    uiVars>>
notActivity == <<proxyVars, valVars, formVars, deviceVars, adaptiveVars, pureVars,
    uiVars>>
staged == <<proxyVars, valVars, formVars, deviceVars, adaptiveVars, activityVars>>
notBlogs == <<staged, bpVars, repoVars, streakVars, uiVars>>
notBreakpoints == <<staged, blogVars, repoVars, streakVars, uiVars>>
notRepoStats == <<staged, blogVars, bpVars, streakVars, uiVars>>
notStreaks == <<staged, blogVars, bpVars, repoVars, uiVars>>
notGraph == <<staged, pureVars, heroVars, themeVars>>
notHero == <<staged, pureVars, graphVars, themeVars>>
notTheme == <<staged, pureVars, graphVars, heroVars>>

(***************************************************************************)
(* Proxy route handlers                                                    *)
(***************************************************************************)

Null == "<null>"
Usernames == {Null, "", "octocat", "satyam"}

UsernameMissingNullOnly(u) == u = Null
\* `!username`: null (parameter absent) and '' are both falsy
UsernameMissing(u) == u = Null \/ u = ""

UpstreamStatuses == {200, 204, 304, 401, 403, 404, 429, 500, 503}

\* Response.ok
Ok(s) == s >= 200 /\ s <= 299

\* NextResponse.json(body, { status }); the status defaults to 200
Json(body, st) == [status |-> st, body |-> body]
NoResponse == [status |-> 0, body |-> [none |-> TRUE]]

IsErrorBody(r) == DOMAIN r.body = {"error"}

\* What a settled fetch produced.  kind: "reject" (fetch threw), "response".
\* bodyOk: whether reading the body (text() / json() and the use made of the
\* parsed value) completes without throwing.
Rejected == [kind |-> "reject", status |-> 0, bodyOk |-> FALSE]
Responded(s, b) == [kind |-> "response", status |-> s, bodyOk |-> b]
FetchOutcomes == {Rejected} \cup {Responded(s, b) : s \in UpstreamStatuses, b \in BOOLEAN}

Succeeded(o) == o.kind = "response" /\ Ok(o.status) /\ o.bodyOk


\* GitHubUser / GitHubRepo bodies the upstream can return
NoUser == [public_repos |-> 0, followers |-> 0, following |-> 0]
UserPayloads == {[public_repos |-> 12, followers |-> 3, following |-> 4]}
Repo(stars, lang) == [stargazers_count |-> stars, language |-> lang]
RepoLists ==
    { <<>>,
      <<Repo(2, "TypeScript"), Repo(0, Null), Repo(5, "Java"), Repo(1, "TypeScript")>> }

Min(a, b) == IF a < b THEN a ELSE b
Max(a, b) == IF a > b THEN a ELSE b

\* repos.reduce((sum, repo) => sum + repo.stargazers_count, 0)
RECURSIVE TotalStars(_)
TotalStars(rs) ==
    IF rs = <<>> THEN 0 ELSE rs[1].stargazers_count + TotalStars(Tail(rs))

\* langCount[repo.language] = (langCount[repo.language] || 0) + 1, for truthy
\* languages; entries are kept in insertion order, as Object.entries yields them
AddLang(entries, lang) ==
    IF \E i \in 1..Len(entries) : entries[i].name = lang
    THEN [i \in 1..Len(entries) |->
            IF entries[i].name = lang
            THEN [name |-> lang, count |-> entries[i].count + 1]
            ELSE entries[i]]
    ELSE Append(entries, [name |-> lang, count |-> 1])

RECURSIVE LangCount(_, _)
LangCount(rs, entries) ==
    IF rs = <<>> THEN entries
    ELSE LangCount(Tail(rs),
                   IF rs[1].language # Null /\ rs[1].language # ""
                   THEN AddLang(entries, rs[1].language)
                   ELSE entries)

InsertByCountAscending(sorted, e) ==
    LET k == Cardinality({i \in 1..Len(sorted) : sorted[i].count <= e.count})
    IN  SubSeq(sorted, 1, k) \o <<e>> \o SubSeq(sorted, k + 1, Len(sorted))
\* .sort((a, b) => b.count - a.count): stable, descending by count
InsertByCount(sorted, e) ==
    LET k == Cardinality({i \in 1..Len(sorted) : sorted[i].count >= e.count})
    IN  SubSeq(sorted, 1, k) \o <<e>> \o SubSeq(sorted, k + 1, Len(sorted))

RECURSIVE SortByCount(_, _)
SortByCount(entries, acc) ==
    IF entries = <<>> THEN acc
    ELSE SortByCount(Tail(entries), InsertByCount(acc, entries[1]))

TopLanguagesLimit == 5
\* Object.entries(langCount).map(...).sort(...).slice(0, 5)
TopLanguages(rs) ==
    LET sorted == SortByCount(LangCount(rs, <<>>), <<>>)
    IN  SubSeq(sorted, 1, Min(TopLanguagesLimit, Len(sorted)))

\* ---- contributions API body: { total: {year: n}, contributions: [{date, count}] }
\* Dates are ISO 'YYYY-MM-DD' strings, compared as strings by the code; for
\* well-formed dates that order is the order of the day numbers used here.
Day(d, c) == [date |-> d, count |-> c]
\* shape: whether `contributions` is absent, an array, or a value on which
\* .filter throws
ContribPayloads ==
    { [hasTotal |-> FALSE, total |-> <<>>, shape |-> "absent", contributions |-> <<>>],
      [hasTotal |-> TRUE, total |-> <<3, 4>>, shape |-> "list",
       contributions |-> <<Day(1, 1), Day(3, 0), Day(2, 2), Day(4, 1)>>],
      [hasTotal |-> TRUE, total |-> <<3>>, shape |-> "malformed", contributions |-> <<>>] }
Todays == {3, 4}

RECURSIVE SumSeq(_)
SumSeq(ns) == IF ns = <<>> THEN 0 ELSE ns[1] + SumSeq(Tail(ns))

FilterNothing(cs, today) == cs
\* contributions.filter((c) => c.date <= today)
RECURSIVE FilterUpTo(_, _)
FilterUpTo(cs, today) ==
    IF cs = <<>> THEN <<>>
    ELSE IF cs[1].date <= today
         THEN <<cs[1]>> \o FilterUpTo(Tail(cs), today)
         ELSE FilterUpTo(Tail(cs), today)

\* validContribs.sort((a, b) => a.date.localeCompare(b.date)): stable, ascending
InsertByDate(sorted, e) ==
    LET k == Cardinality({i \in 1..Len(sorted) : sorted[i].date <= e.date})
    IN  SubSeq(sorted, 1, k) \o <<e>> \o SubSeq(sorted, k + 1, Len(sorted))

RECURSIVE SortByDate(_, _)
SortByDate(cs, acc) ==
    IF cs = <<>> THEN acc ELSE SortByDate(Tail(cs), InsertByDate(acc, cs[1]))

\* for (i = length - 1; i >= 0; i--) { count > 0 ? tempStreak++ : date !== today ? break : ; }
RECURSIVE CurrentStreakLoop(_, _, _, _)
CurrentStreakLoop(v, i, today, tempStreak) ==
    IF i < 1 THEN tempStreak
    ELSE IF v[i].count > 0 THEN CurrentStreakLoop(v, i - 1, today, tempStreak + 1)
    ELSE IF v[i].date # today THEN tempStreak
    ELSE CurrentStreakLoop(v, i - 1, today, tempStreak)

\* for (const c of validContribs) { count > 0 ? (streak++, longest = max) : streak = 0 }
RECURSIVE LongestStreakLoop(_, _, _, _)
LongestStreakLoop(v, i, streak, longest) ==
    IF i > Len(v) THEN longest
    ELSE IF v[i].count > 0
         THEN LongestStreakLoop(v, i + 1, streak + 1, Max(longest, streak + 1))
         ELSE LongestStreakLoop(v, i + 1, 0, longest)

LongestStreakUnsorted(cs, today) == LongestStreakLoop(FilterUpTo(cs, today), 1, 0, 0)
ValidContribs(cs, today) == SortByDate(FilterUpTo(cs, today), <<>>)
CurrentStreakUnfiltered(cs, today) ==
    LET v == SortByDate(cs, <<>>) IN CurrentStreakLoop(v, Len(v), today, 0)
CurrentStreak(cs, today) ==
    LET v == ValidContribs(cs, today) IN CurrentStreakLoop(v, Len(v), today, 0)
LongestStreak(cs, today) ==
    LET v == ValidContribs(cs, today) IN LongestStreakLoop(v, 1, 0, 0)

\* The three contribution figures after the inner try block: zeros unless the
\* request succeeded; a throw inside the block keeps what was assigned before it
ContribStats(o, p, today) ==
    LET got == Succeeded(o)
        hasList == got /\ p.shape = "list"
    IN  [totalContributions |-> IF got /\ p.hasTotal THEN SumSeq(p.total) ELSE 0,
         currentStreak |-> IF hasList THEN CurrentStreak(p.contributions, today) ELSE 0,
         longestStreak |-> IF hasList THEN LongestStreak(p.contributions, today) ELSE 0]

\* the 200 body of the GitHub handler
StatsBody(u, rs, c) ==
    [publicRepos |-> u.public_repos,
     followers |-> u.followers,
     following |-> u.following,
     totalStars |-> TotalStars(rs),
     topLanguages |-> TopLanguages(rs),
     totalContributions |-> c.totalContributions,
     currentStreak |-> c.currentStreak,
     longestStreak |-> c.longestStreak]

UsernameRequired == Json([error |-> "Username required"], 400)
\* the outer catch of the GitHub handler
GithubCatch == Json([error |-> "Failed to fetch GitHub data"], 500)

\* the status checks on a non-ok user response; `throw` lands in the outer catch
UserErrorResponse(s) ==
    IF s = 403 THEN Json([error |-> "GitHub API rate limit exceeded"], 429)
    ELSE IF s = 401 THEN Json([error |-> "Invalid GitHub token"], 401)
    ELSE IF s = 404 THEN Json([error |-> "User not found"], 404)
    ELSE GithubCatch

Settled(req, o) == Append(upstream, [req |-> req, outcome |-> o])


\* ---- GitHub handler: GET /api/github?username=... ----

GithubStart ==
    /\ route = "github" /\ pc = "start"
    /\ IF UsernameMissing(username)
       THEN /\ response' = UsernameRequired
            /\ pc' = "done"
            /\ UNCHANGED <<issued, inflight>>
       ELSE /\ issued' = Append(issued, "user")
            /\ inflight' = inflight \cup {"user"}
            /\ pc' = "awaitUser"
            /\ UNCHANGED response
    /\ UNCHANGED <<route, username, upstream, userData, repos>>
    /\ UNCHANGED notProxy

UserRespondsRetrying ==
    /\ route = "github" /\ pc = "awaitUser"
    /\ \E o \in FetchOutcomes, u \in UserPayloads :
         /\ upstream' = Settled("user", o)
         /\ IF Succeeded(o)
            THEN /\ userData' = u
                 /\ issued' = Append(issued, "repos")
                 /\ inflight' = (inflight \ {"user"}) \cup {"repos"}
                 /\ pc' = "awaitRepos"
                 /\ UNCHANGED response
            ELSE IF o.kind = "reject"
            THEN /\ issued' = Append(issued, "user")
                 /\ UNCHANGED <<inflight, pc, response, userData>>
            ELSE /\ response' = IF ~Ok(o.status) /\ o.bodyOk
                                THEN UserErrorResponse(o.status)
                                ELSE GithubCatch
                 /\ inflight' = inflight \ {"user"}
                 /\ pc' = "done"
                 /\ UNCHANGED <<issued, userData>>
    /\ UNCHANGED <<route, username, repos>>
    /\ UNCHANGED notProxy

\* the continuation after `await fetch(users/${username})`, up to the next fetch
UserResponds ==
    /\ route = "github" /\ pc = "awaitUser"
    /\ \E o \in FetchOutcomes, u \in UserPayloads :
         /\ upstream' = Settled("user", o)
         /\ IF Succeeded(o)
            THEN /\ userData' = u
                 /\ issued' = Append(issued, "repos")
                 /\ inflight' = (inflight \ {"user"}) \cup {"repos"}
                 /\ pc' = "awaitRepos"
                 /\ UNCHANGED response
            ELSE /\ response' = IF o.kind = "response" /\ ~Ok(o.status) /\ o.bodyOk
                                THEN UserErrorResponse(o.status)
                                ELSE GithubCatch
                 /\ inflight' = inflight \ {"user"}
                 /\ pc' = "done"
                 /\ UNCHANGED <<issued, userData>>
    /\ UNCHANGED <<route, username, repos>>
    /\ UNCHANGED notProxy

ReposThrowsStrict(o) == ~Succeeded(o)
\* the repos step throws (into the outer catch) when fetch rejects or when a
\* success body cannot be read as an array; a non-ok status is not an error
ReposThrows(o) == o.kind = "reject" \/ (Ok(o.status) /\ ~o.bodyOk)

\* the continuation after `await fetch(users/${username}/repos)`
ReposResponds ==
    /\ route = "github" /\ pc = "awaitRepos"
    /\ \E o \in FetchOutcomes, rs \in RepoLists :
         /\ upstream' = Settled("repos", o)
         /\ IF ReposThrows(o)
            THEN /\ response' = GithubCatch
                 /\ inflight' = inflight \ {"repos"}
                 /\ pc' = "done"
                 /\ UNCHANGED <<issued, repos>>
            ELSE /\ repos' = IF Ok(o.status) THEN rs ELSE <<>>
                 /\ issued' = Append(issued, "contributions")
                 /\ inflight' = (inflight \ {"repos"}) \cup {"contributions"}
                 /\ pc' = "awaitContrib"
                 /\ UNCHANGED response
    /\ UNCHANGED <<route, username, userData>>
    /\ UNCHANGED notProxy

\* the continuation after `await fetch(github-contributions-api/${username})`
ContribResponds ==
    /\ route = "github" /\ pc = "awaitContrib"
    /\ \E o \in FetchOutcomes, p \in ContribPayloads, today \in Todays :
         /\ upstream' = Settled("contributions", o)
         /\ response' = Json(StatsBody(userData, repos, ContribStats(o, p, today)), 200)
    /\ inflight' = inflight \ {"contributions"}
    /\ pc' = "done"
    /\ UNCHANGED <<route, username, issued, userData, repos>>
    /\ UNCHANGED notProxy


\* ---- dev.to handler: GET /api/devto?username=... ----

\* a DevToArticle (snake_case), published on day `d`
Article(i, d) ==
    [id |-> i, title |-> "title", description |-> "description", url |-> "https://dev.to/a",
     cover_image |-> IF i % 2 = 0 THEN Null ELSE "cover.png",
     social_image |-> "social.png",
     published_at |-> d, reading_time_minutes |-> i + 1, tag_list |-> <<"java">>]

ArticleLists ==
    { <<>>,
      <<Article(1, 9)>>,
      <<Article(1, 9), Article(2, 7)>>,
      <<Article(2, 7), Article(1, 9), Article(3, 5)>>,
      <<Article(1, 9), Article(2, 7), Article(3, 5), Article(4, 3)>> }

transformArticle(article) ==
    [id |-> article.id,
     title |-> article.title,
     description |-> article.description,
     url |-> article.url,
     coverImage |-> article.cover_image,
     socialImage |-> article.social_image,
     publishedAt |-> article.published_at,
     readingTimeMinutes |-> article.reading_time_minutes,
     tags |-> article.tag_list]

BlogLimit == 3
BlogsOldestFirst(articles) ==
    LET k == Min(BlogLimit, Len(articles))
    IN  [i \in 1..k |-> transformArticle(articles[k + 1 - i])]
\* articles.slice(0, 3).map(transformArticle)
Blogs(articles) ==
    [i \in 1..Min(BlogLimit, Len(articles)) |-> transformArticle(articles[i])]

\* the catch of the dev.to handler
DevtoCatch == Json([error |-> "Failed to fetch blog posts"], 500)

DevtoErrorResponseAsGithub(s) ==
    IF s = 404 THEN Json([error |-> "User not found"], 404)
    ELSE IF s = 403 THEN Json([error |-> "Rate limit exceeded"], 429)
    ELSE DevtoCatch
\* the status checks on a non-ok articles response
DevtoErrorResponse(s) ==
    IF s = 404 THEN Json([error |-> "User not found"], 404)
    ELSE IF s = 429 THEN Json([error |-> "Rate limit exceeded"], 429)
    ELSE DevtoCatch

DevtoStart ==
    /\ route = "devto" /\ pc = "start"
    /\ IF UsernameMissing(username)
       THEN /\ response' = UsernameRequired
            /\ pc' = "done"
            /\ UNCHANGED <<issued, inflight>>
       ELSE /\ issued' = Append(issued, "articles")
            /\ inflight' = inflight \cup {"articles"}
            /\ pc' = "awaitArticles"
            /\ UNCHANGED response
    /\ UNCHANGED <<route, username, upstream, userData, repos>>
    /\ UNCHANGED notProxy

\* the continuation after `await fetch(dev.to/api/articles?...)`
ArticlesResponds ==
    /\ route = "devto" /\ pc = "awaitArticles"
    /\ \E o \in FetchOutcomes, articles \in ArticleLists :
         /\ upstream' = Settled("articles", o)
         /\ response' = IF Succeeded(o) THEN Json([blogs |-> Blogs(articles)], 200)
                        ELSE IF o.kind = "response" /\ ~Ok(o.status) /\ o.bodyOk
                        THEN DevtoErrorResponse(o.status)
                        ELSE DevtoCatch
    /\ inflight' = inflight \ {"articles"}
    /\ pc' = "done"
    /\ UNCHANGED <<route, username, issued, userData, repos>>
    /\ UNCHANGED notProxy

ProxyInit ==
    /\ route \in {"github", "devto"}
    /\ username \in Usernames
    /\ pc = "start"
    /\ issued = <<>>
    /\ inflight = {}
    /\ upstream = <<>>
    /\ response = NoResponse
    /\ userData = NoUser
    /\ repos = <<>>

ProxyNext ==
    \/ GithubStart
    \/ UserResponds
    \/ ReposResponds
    \/ ContribResponds
    \/ DevtoStart
    \/ ArticlesResponds


(***************************************************************************)
(* Properties of the proxy handlers (checked under SpecProxy)              *)
(***************************************************************************)

UsernameGiven == username # Null /\ username # ""
HandlerDone == pc = "done"
Prefix(s, t) == Len(s) <= Len(t) /\ s = SubSeq(t, 1, Len(s))
\* the outcome of the i-th outbound request, once settled
HasOutcome(i) == Len(upstream) >= i
OutcomeAt(i) == upstream[i].outcome
ErrorResponse(st, text) == response = [status |-> st, body |-> [error |-> text]]

\* C1: in both handlers a request whose username parameter is absent or empty
\* is answered with 400 {error: 'Username required'}, and no outbound request
\* is issued at any point of the run.
C1_MissingUsername ==
    ~UsernameGiven =>
        /\ issued = <<>> /\ inflight = {} /\ upstream = <<>>
        /\ pc \in {"start", "done"}
        /\ HandlerDone => ErrorResponse(400, "Username required")

C1_Witness ==
    /\ route = "devto" /\ username = "" /\ HandlerDone /\ response.status = 400

\* C2: in the GitHub handler a user lookup answered with a non-success status
\* ends the run with 429 for 403, 401 for 401, 404 for 404 and 500 for any
\* other status, with a JSON {error} body, and without a repos or a
\* contributions request.
C2_UserStatusMapping ==
    (route = "github" /\ HasOutcome(1)
       /\ OutcomeAt(1).kind = "response" /\ ~Ok(OutcomeAt(1).status)) =>
        /\ HandlerDone
        /\ response.status =
             (CASE OutcomeAt(1).status = 403 -> 429
                [] OutcomeAt(1).status = 401 -> 401
                [] OutcomeAt(1).status = 404 -> 404
                [] OTHER -> 500)
        /\ IsErrorBody(response)
        /\ issued = <<"user">>

\* C3: in the dev.to handler a thrown error (fetch rejecting, a body that
\* cannot be read or parsed) is answered with 500 'Failed to fetch blog
\* posts'; otherwise an upstream 404 is answered with 404 'User not found', an
\* upstream 429 with 429 'Rate limit exceeded' and any other non-success
\* status with 500 'Failed to fetch blog posts'; a 200 with a blogs array is
\* returned only when the upstream request succeeded.
C3_DevtoStatusMapping ==
    (route = "devto" /\ HasOutcome(1)) =>
        LET o == OutcomeAt(1)
            threw == o.kind = "reject" \/ ~o.bodyOk
        IN  /\ HandlerDone
            /\ threw => ErrorResponse(500, "Failed to fetch blog posts")
            /\ (~threw /\ o.status = 404) => ErrorResponse(404, "User not found")
            /\ (~threw /\ o.status = 429) => ErrorResponse(429, "Rate limit exceeded")
            /\ (~threw /\ ~Ok(o.status) /\ o.status \notin {404, 429}) =>
                 ErrorResponse(500, "Failed to fetch blog posts")
            /\ (~threw /\ Ok(o.status)) =>
                 (response.status = 200 /\ DOMAIN response.body = {"blogs"})
            /\ response.status = 200 => (o.kind = "response" /\ Ok(o.status) /\ o.bodyOk)

C3_Witness ==
    /\ route = "devto" /\ HasOutcome(1) /\ OutcomeAt(1).kind = "response"
    /\ OutcomeAt(1).status = 429 /\ OutcomeAt(1).bodyOk
    /\ response.status = 429

\* C4: a GitHub run with a username issues its outbound requests one at a
\* time in the order user, repos, contributions, each at most once and each
\* only after the previous one has settled, between 1 and 3 in all; a dev.to
\* run with a username issues exactly one.
C4_SequentialRequests ==
    /\ Cardinality(inflight) <= 1
    /\ Len(issued) = Len(upstream) + Cardinality(inflight)
    /\ inflight # {} => inflight = {issued[Len(issued)]}
    /\ \A i \in 1..Len(upstream) : upstream[i].req = issued[i]
    /\ route = "github" => Prefix(issued, <<"user", "repos", "contributions">>)
    /\ route = "devto" => Prefix(issued, <<"articles">>)
    /\ (HandlerDone /\ UsernameGiven) =>
         /\ inflight = {}
         /\ route = "github" => Len(issued) \in 1..3
         /\ route = "devto" => issued = <<"articles">>

C4_Witness ==
    /\ route = "github" /\ HandlerDone
    /\ issued = <<"user", "repos", "contributions">> /\ Len(upstream) = 3

\* C5 (as claimed): the GitHub handler returns 200 only if every outbound
\* request it issued succeeded; if any of them failed the response is an error
\* status with a JSON {error} body.
C5_NoPartialFailure ==
    (route = "github" /\ HandlerDone /\ UsernameGiven) =>
        IF \A i \in 1..Len(upstream) : Succeeded(OutcomeAt(i))
        THEN response.status = 200
        ELSE response.status >= 400 /\ IsErrorBody(response)

\* C5 (amended): the GitHub handler returns 200 exactly when the user request
\* succeeded and the repos request did not throw (it was answered, and with a
\* readable body when its status is a success); every other run ends with an
\* error status and a JSON {error} body.  In a 200 response a repos request
\* answered with a non-success status leaves totalStars 0 and topLanguages
\* empty, and a contributions request that failed leaves totalContributions,
\* currentStreak and longestStreak 0.
C5_PartialFailure ==
    (route = "github" /\ HandlerDone /\ UsernameGiven) =>
        LET userOk == Succeeded(OutcomeAt(1))
            reposAnswered ==
                /\ HasOutcome(2)
                /\ OutcomeAt(2).kind = "response"
                /\ (Ok(OutcomeAt(2).status) => OutcomeAt(2).bodyOk)
        IN  /\ response.status = 200 <=> (userOk /\ reposAnswered)
            /\ response.status # 200 => (response.status >= 400 /\ IsErrorBody(response))
            /\ response.status = 200 =>
                 /\ HasOutcome(3)
                 /\ ~Succeeded(OutcomeAt(2)) =>
                      (response.body.totalStars = 0 /\ response.body.topLanguages = <<>>)
                 /\ ~Succeeded(OutcomeAt(3)) =>
                      /\ response.body.totalContributions = 0
                      /\ response.body.currentStreak = 0
                      /\ response.body.longestStreak = 0

C5_Witness ==
    /\ route = "github" /\ HandlerDone /\ response.status = 200
    /\ HasOutcome(3)
    /\ OutcomeAt(2).kind = "response" /\ OutcomeAt(2).status = 404
    /\ OutcomeAt(3).kind = "reject"

(***************************************************************************)
(* validateContactForm (lib/validation.ts)                                 *)
(***************************************************************************)

Fields == {"name", "email", "message"}

\* \s of the regex and the white space String.prototype.trim removes
IsSpace(c) == c = " "

RECURSIVE TrimStart(_)
TrimStart(s) ==
    IF s # <<>> /\ IsSpace(s[1]) THEN TrimStart(Tail(s)) ELSE s

RECURSIVE TrimEnd(_)
TrimEnd(s) ==
    IF s # <<>> /\ IsSpace(s[Len(s)]) THEN TrimEnd(SubSeq(s, 1, Len(s) - 1)) ELSE s

TrimNothing(s) == s
\* String.prototype.trim
Trim(s) == TrimEnd(TrimStart(s))

\* The automaton of /^[^\s@]+@[^\s@]+\.[^\s@]+$/ :
\*   0 -[^\s@]-> 1 -[^\s@]-> 1 -@-> 2 -[^\s@]-> 3 -[^\s@]-> 3 -\.-> 4 -[^\s@]-> 5 -[^\s@]-> 5
\* with 5 accepting.  Step gives the states reachable from q on character c.
Plain(c) == ~IsSpace(c) /\ c # "@"
Step(q, c) ==
    CASE q = 0 -> IF Plain(c) THEN {1} ELSE {}
      [] q = 1 -> (IF Plain(c) THEN {1} ELSE {}) \cup (IF c = "@" THEN {2} ELSE {})
      [] q = 2 -> IF Plain(c) THEN {3} ELSE {}
      [] q = 3 -> (IF Plain(c) THEN {3} ELSE {}) \cup (IF c = "." THEN {4} ELSE {})
      [] q = 4 -> IF Plain(c) THEN {5} ELSE {}
      [] q = 5 -> IF Plain(c) THEN {5} ELSE {}

RECURSIVE RunRegex(_, _)
RunRegex(s, Q) ==
    IF s = <<>> THEN Q
    ELSE RunRegex(Tail(s), UNION {Step(q, s[1]) : q \in Q})

\* emailRegex.test(email)
EmailRegexTest(s) == 5 \in RunRegex(s, {0})

MinNameLength == 2
MinMessageLength == 10

NameErrorText == "Name must be at least 2 characters"
EmailErrorText == "Please enter a valid email address"
MessageErrorText == "Message must be at least 10 characters"

\* !data.name || data.name.trim().length < 2
NameInvalid(name) == name = <<>> \/ Len(Trim(name)) < MinNameLength
\* !data.email || !emailRegex.test(data.email)
EmailInvalid(email) == email = <<>> \/ ~EmailRegexTest(email)
MessageInvalidOffByOne(message) ==
    message = <<>> \/ Len(Trim(message)) <= MinMessageLength
\* !data.message || data.message.trim().length < 10
MessageInvalid(message) == message = <<>> \/ Len(Trim(message)) < MinMessageLength

ErrorText(f) ==
    CASE f = "name" -> NameErrorText
      [] f = "email" -> EmailErrorText
      [] f = "message" -> MessageErrorText

\* errors holds a key exactly for the fields found invalid
validateContactForm(data) ==
    LET bad == {f \in Fields :
                  \/ f = "name" /\ NameInvalid(data.name)
                  \/ f = "email" /\ EmailInvalid(data.email)
                  \/ f = "message" /\ MessageInvalid(data.message)}
        errors == [f \in bad |-> ErrorText(f)]
    IN  [isValid |-> DOMAIN errors = {}, errors |-> errors]

FormData(n, e, m) == [name |-> n, email |-> e, message |-> m]

\* ---- inputs of the pure-function check ----
MaxNameLen == 3
MaxEmailLen == 6
MaxMessageLen == 11

Repeat(c, n) == [i \in 1..n |-> c]

NameChars == {"a", " "}
EmailChars == {"a", "@", ".", " "}
MessageChars == {"m", " "}

SampleNames == {<<>>, <<"a", "a">>}
SampleEmails == {<<"a">>, <<"a", "@", "a", ".", "a">>}
SampleMessages == {<<"m">>, Repeat("m", 10)}

\* one field ranges over all its strings up to its bound, the other two over a
\* valid and an invalid sample
ValInput(d) ==
    \/ \E k \in 0..MaxNameLen : \E n \in [1..k -> NameChars] :
         \E e \in SampleEmails, m \in SampleMessages : d = FormData(n, e, m)
    \/ \E k \in 0..MaxEmailLen : \E e \in [1..k -> EmailChars] :
         \E n \in SampleNames, m \in SampleMessages : d = FormData(n, e, m)
    \/ \E k \in 0..MaxMessageLen : \E m \in [1..k -> MessageChars] :
         \E n \in SampleNames, e \in SampleEmails : d = FormData(n, e, m)

NoResult == [called |-> FALSE]
Returned == DOMAIN vResult = {"isValid", "errors"}

ValInit ==
    /\ ValInput(vData)
    /\ vResult = NoResult

Validate ==
    /\ ~Returned
    /\ vResult' = validateContactForm(vData)
    /\ UNCHANGED vData
    /\ UNCHANGED notVal

ValNext == Validate


(***************************************************************************)
(* Properties of validateContactForm (checked under SpecValidate)          *)
(***************************************************************************)

\* the number of characters from the first to the last non-space one
TrimmedLength(s) ==
    LET solid == {i \in 1..Len(s) : s[i] # " "}
    IN  IF solid = {} THEN 0
        ELSE (CHOOSE hi \in solid : \A i \in solid : i <= hi)
             - (CHOOSE lo \in solid : \A i \in solid : lo <= i) + 1

\* local@domain.tld: no white space, exactly one @, something before it, and
\* after it a dot with something on both of its sides
EmailShape(e) ==
    /\ \A i \in 1..Len(e) : e[i] # " "
    /\ Cardinality({i \in 1..Len(e) : e[i] = "@"}) = 1
    /\ LET at == CHOOSE i \in 1..Len(e) : e[i] = "@"
       IN  /\ at > 1
           /\ \E dot \in (at + 2)..(Len(e) - 1) : e[dot] = "."

\* C6: validateContactForm returns isValid = true and an empty errors object
\* for every input whose trimmed name has at least 2 characters, whose email
\* has the shape local@domain.tld and whose trimmed message has at least 10
\* characters.
C6_ValidAccepted ==
    (Returned
       /\ TrimmedLength(vData.name) >= 2
       /\ EmailShape(vData.email)
       /\ TrimmedLength(vData.message) >= 10) =>
        (vResult.isValid = TRUE /\ DOMAIN vResult.errors = {})

C6_Witness ==
    /\ Returned /\ vResult.isValid = TRUE
    /\ Len(vData.message) = 11 /\ vData.message[1] = " "
    /\ TrimmedLength(vData.message) = 10

\* C7: for every input, errors.name is set exactly when the trimmed name is
\* shorter than 2 characters, errors.email exactly when the email is empty or
\* lacks the email shape, errors.message exactly when the trimmed message is
\* shorter than 10 characters; isValid is false exactly when some error is
\* set; and the error of a field is the one the same field value gets with the
\* other two fields empty.
C7_ErrorsExact ==
    Returned =>
        /\ "name" \in DOMAIN vResult.errors <=> TrimmedLength(vData.name) < 2
        /\ "email" \in DOMAIN vResult.errors <=>
             (vData.email = <<>> \/ ~EmailShape(vData.email))
        /\ "message" \in DOMAIN vResult.errors <=> TrimmedLength(vData.message) < 10
        /\ vResult.isValid = FALSE <=> DOMAIN vResult.errors # {}
        /\ \A f \in DOMAIN vResult.errors : vResult.errors[f] = ErrorText(f)
        /\ \A f \in Fields :
             LET alone == validateContactForm([FormData(<<>>, <<>>, <<>>) EXCEPT ![f] = vData[f]])
             IN  f \in DOMAIN vResult.errors <=> f \in DOMAIN alone.errors

C7_Witness ==
    /\ Returned /\ DOMAIN vResult.errors = {"email"}
    /\ Cardinality({i \in 1..Len(vData.email) : vData.email[i] = "@"}) = 2
    /\ \E i \in 1..Len(vData.email) : vData.email[i] = "."

(***************************************************************************)
(* ContactForm (components/sections/ContactForm.tsx) with the onSubmit     *)
(* that Contact passes to it                                               *)
(***************************************************************************)

Undefined == "<undefined>"
EmptyForm == FormData(<<>>, <<>>, <<>>)
AllTouched == {"name", "email", "message"}

\* values an input can be changed to
NameValues == {<<>>, <<"a", " ">>, <<"a", "a">>, <<"a", "a", "a">>}
EmailValues == {<<>>, <<"a", "@", "a">>, <<"a", "@", "a", ".", "a">>}
MessageValues == {<<>>, Repeat("m", 9), Repeat("m", 10)}
ValuesOf(f) ==
    CASE f = "name" -> NameValues
      [] f = "email" -> EmailValues
      [] f = "message" -> MessageValues

MaxCalls == 2

\* prev.errors[name], undefined for a missing key
ErrorOf(errors, f) == IF f \in DOMAIN errors THEN errors[f] ELSE Undefined
\* { ...prev.errors, [name]: v }
WithError(errors, f, v) ==
    [k \in DOMAIN errors \cup {f} |-> IF k = f THEN v ELSE errors[k]]

\* getFieldError: touched[field] ? validation.errors[field] : undefined
getFieldError(f) ==
    IF f \in touched THEN ErrorOf(validation.errors, f) ELSE Undefined

\* disabled={status === 'submitting'} on the three inputs
InputsDisabled == status = "submitting"
ButtonNeverDisabled == FALSE
\* Button: isDisabled = disabled || isLoading, with isLoading={status === 'submitting'}
ButtonDisabled == status = "submitting"
SuccessPanelShown == status = "success"
ErrorPanelShown == status = "error"

handleChangeClearingAll ==
    /\ ~InputsDisabled
    /\ \E f \in Fields : \E v \in ValuesOf(f) :
         /\ formData' = [formData EXCEPT ![f] = v]
         /\ validation' = [validation EXCEPT !.errors = <<>>]
    /\ lastEvent' = "change"
    /\ UNCHANGED <<status, touched, hasOnSubmit, pending, calls, relay>>
    /\ UNCHANGED notForm

handleChange ==
    /\ ~InputsDisabled
    /\ \E f \in Fields : \E v \in ValuesOf(f) :
         /\ formData' = [formData EXCEPT ![f] = v]
         /\ validation' =
              IF ErrorOf(validation.errors, f) # Undefined
              THEN [validation EXCEPT !.errors = WithError(validation.errors, f, Undefined)]
              ELSE validation
    /\ lastEvent' = "change"
    /\ UNCHANGED <<status, touched, hasOnSubmit, pending, calls, relay>>
    /\ UNCHANGED notForm

handleBlurTouchingAll ==
    /\ ~InputsDisabled
    /\ \E f \in Fields :
         LET result == validateContactForm(formData)
         IN  /\ touched' = AllTouched
             /\ validation' =
                  IF ErrorOf(result.errors, f) # Undefined
                  THEN [validation EXCEPT
                          !.errors = WithError(validation.errors, f, result.errors[f])]
                  ELSE validation
    /\ lastEvent' = "blur"
    /\ UNCHANGED <<formData, status, hasOnSubmit, pending, calls, relay>>
    /\ UNCHANGED notForm

handleBlur ==
    /\ ~InputsDisabled
    /\ \E f \in Fields :
         LET result == validateContactForm(formData)
         IN  /\ touched' = touched \cup {f}
             /\ validation' =
                  IF ErrorOf(result.errors, f) # Undefined
                  THEN [validation EXCEPT
                          !.errors = WithError(validation.errors, f, result.errors[f])]
                  ELSE validation
    /\ lastEvent' = "blur"
    /\ UNCHANGED <<formData, status, hasOnSubmit, pending, calls, relay>>
    /\ UNCHANGED notForm

handleSubmitUnchecked ==
    /\ ~ButtonDisabled
    /\ LET result == validateContactForm(formData)
       IN  /\ validation' = result
           /\ IF hasOnSubmit
              THEN /\ Len(calls) < MaxCalls
                   /\ touched' = AllTouched
                   /\ status' = "submitting"
                   /\ calls' = Append(calls, formData)
                   /\ pending' = TRUE
                   /\ UNCHANGED formData
              ELSE /\ status' = "success"
                   /\ formData' = EmptyForm
                   /\ touched' = {}
                   /\ UNCHANGED <<pending, calls>>
    /\ lastEvent' = "submit"
    /\ UNCHANGED <<hasOnSubmit, relay>>
    /\ UNCHANGED notForm

\* handleSubmit up to its first await (or to its end when nothing is awaited)
handleSubmit ==
    /\ ~ButtonDisabled
    /\ LET result == validateContactForm(formData)
       IN  /\ validation' = result
           /\ IF ~result.isValid
              THEN /\ touched' = AllTouched
                   /\ UNCHANGED <<formData, status, pending, calls>>
              ELSE IF hasOnSubmit
              THEN /\ Len(calls) < MaxCalls
                   /\ touched' = AllTouched
                   /\ status' = "submitting"
                   /\ calls' = Append(calls, formData)
                   /\ pending' = TRUE
                   /\ UNCHANGED formData
              ELSE /\ status' = "success"
                   /\ formData' = EmptyForm
                   /\ touched' = {}
                   /\ UNCHANGED <<pending, calls>>
    /\ lastEvent' = "submit"
    /\ UNCHANGED <<hasOnSubmit, relay>>
    /\ UNCHANGED notForm

\* Contact.handleSubmit: the POST to the form relay and how it ends:
\* "success" / "failure": the relay answered with success true / false,
\* "networkError": fetch threw, "badJson": response.json() threw
RelayOutcomes == {"success", "failure", "networkError", "badJson"}
OnSubmitFulfilsUnlessThrown(r) == r \in {"success", "failure"}
\* the promise resolves only when nothing threw and result.success is truthy
OnSubmitFulfils(r) == r = "success"

onSubmitResolvedKeepingForm ==
    /\ pending
    /\ \E r \in RelayOutcomes : OnSubmitFulfils(r) /\ relay' = r
    /\ status' = "success"
    /\ pending' = FALSE
    /\ lastEvent' = "resolved"
    /\ UNCHANGED <<formData, touched, validation, hasOnSubmit, calls>>
    /\ UNCHANGED notForm

\* handleSubmit after `await onSubmit(formData)` returned
onSubmitResolved ==
    /\ pending
    /\ \E r \in RelayOutcomes : OnSubmitFulfils(r) /\ relay' = r
    /\ status' = "success"
    /\ formData' = EmptyForm
    /\ touched' = {}
    /\ pending' = FALSE
    /\ lastEvent' = "resolved"
    /\ UNCHANGED <<validation, hasOnSubmit, calls>>
    /\ UNCHANGED notForm

\* handleSubmit after `await onSubmit(formData)` threw
onSubmitRejected ==
    /\ pending
    /\ \E r \in RelayOutcomes : ~OnSubmitFulfils(r) /\ relay' = r
    /\ status' = "error"
    /\ pending' = FALSE
    /\ lastEvent' = "rejected"
    /\ UNCHANGED <<formData, validation, touched, hasOnSubmit, calls>>
    /\ UNCHANGED notForm

FormInit ==
    /\ formData = EmptyForm
    /\ validation = [isValid |-> TRUE, errors |-> <<>>]
    /\ status = "idle"
    /\ touched = {}
    /\ hasOnSubmit \in BOOLEAN
    /\ pending = FALSE
    /\ calls = <<>>
    /\ relay = "none"
    /\ lastEvent = "mount"

FormNext ==
    \/ handleChange
    \/ handleBlur
    \/ handleSubmit
    \/ onSubmitResolved
    \/ onSubmitRejected

(***************************************************************************)
(* Properties of ContactForm (checked under SpecForm)                      *)
(***************************************************************************)

NoErrorDisplayed == \A f \in Fields : getFieldError(f) = Undefined
\* the onSubmit promise settles in this step
Settles == pending /\ ~pending'

\* C8: onSubmit is called only by a submit event whose current form data pass
\* validateContactForm, and it receives exactly these data; a submit event
\* with invalid data calls nothing and leaves the submission status unchanged.
C8_SubmitOnlyValidData ==
    [][/\ calls' # calls =>
            /\ lastEvent' = "submit"
            /\ validateContactForm(formData).isValid
            /\ calls' = Append(calls, formData)
       /\ (lastEvent' = "submit" /\ ~validateContactForm(formData).isValid) =>
            /\ calls' = calls
            /\ pending' = pending
            /\ status' = status]_vars

C8_Witness ==
    /\ lastEvent = "submit" /\ pending
    /\ Len(calls) = 2 /\ calls[1] # calls[2]
    /\ calls[2] = formData

\* C9: when the onSubmit promise resolves, status goes from 'submitting' to
\* 'success', name, email and message become empty strings and no field is
\* touched any more, so the success panel is shown and no validation error is
\* displayed.
C9_ResolveResetsForm ==
    [][(Settles /\ relay' = "success") =>
            /\ status = "submitting" /\ status' = "success"
            /\ formData' = EmptyForm
            /\ touched' = {}
            /\ SuccessPanelShown' /\ ~ErrorPanelShown'
            /\ NoErrorDisplayed']_vars

C9_Witness ==
    /\ lastEvent = "resolved" /\ relay = "success" /\ status = "success"
    /\ calls # <<>> /\ formData = EmptyForm /\ formData # calls[Len(calls)]

\* C10: when the onSubmit promise rejects (the relay call threw, or the relay
\* answered with success = false), status becomes 'error' and the error panel
\* is shown, name, email and message are left as entered, and the inputs and
\* the submit button are enabled again.
C10_RejectKeepsForm ==
    [][(Settles /\ relay' # "success") =>
            /\ relay' \in {"failure", "networkError", "badJson"}
            /\ status = "submitting" /\ status' = "error"
            /\ ErrorPanelShown' /\ ~SuccessPanelShown'
            /\ formData' = formData /\ formData' = calls[Len(calls)]
            /\ ~InputsDisabled' /\ ~ButtonDisabled']_vars

C10_Witness ==
    /\ lastEvent = "rejected" /\ relay = "failure" /\ status = "error"
    /\ formData = calls[Len(calls)] /\ ~ButtonDisabled

\* C11: while a submission is in flight (status 'submitting') the three
\* inputs and the submit button are disabled and no step other than the
\* settling of that submission changes the form: no second onSubmit call starts
\* before the first one has settled.
C11_SingleSubmissionInFlight ==
    [][/\ pending <=> status = "submitting"
       /\ pending =>
            /\ InputsDisabled /\ ButtonDisabled
            /\ calls' = calls
            /\ Settles \/ UNCHANGED formVars]_vars

C11_Witness ==
    /\ pending /\ status = "submitting" /\ InputsDisabled /\ ButtonDisabled
    /\ Len(calls) = 2 /\ relay = "failure"

\* the message validateContactForm gives for field f of the current form data
\* (Undefined when the field is valid)
MessageFor(f) == ErrorOf(validateContactForm(formData).errors, f)
\* a step of the named handler that changes something
StepOf(event) == lastEvent' = event /\ vars' # vars

\* C23: an error message is displayed for a field only if the field is
\* touched.  A blur marks only the blurred field touched and records its error
\* when its current value is invalid; the fields still untouched display no
\* error.  A submit attempt marks all three fields touched, so the message of
\* every invalid field is displayed (a submit that completes at once with
\* success has no invalid field and resets the form).
C23_ErrorsOnlyWhenTouched ==
    [][/\ \A f \in Fields : getFieldError(f)' # Undefined => f \in touched'
       /\ StepOf("blur") =>
            \E f \in Fields :
               /\ touched' = touched \cup {f}
               /\ MessageFor(f) # Undefined =>
                     /\ ErrorOf(validation'.errors, f) = MessageFor(f)
                     /\ getFieldError(f)' = MessageFor(f)
               /\ \A g \in Fields \ touched' : getFieldError(g)' = Undefined
       /\ StepOf("submit") =>
            /\ touched' = AllTouched
                 \/ (status' = "success" /\ \A f \in Fields : MessageFor(f) = Undefined)
            /\ \A f \in Fields :
                  MessageFor(f) # Undefined => getFieldError(f)' = MessageFor(f)]_vars

C23_Witness ==
    /\ lastEvent = "blur" /\ touched = {"name"}
    /\ getFieldError("name") = NameErrorText
    /\ MessageFor("email") # Undefined /\ getFieldError("email") = Undefined
    /\ MessageFor("message") # Undefined /\ getFieldError("message") = Undefined

\* C24: typing in a field changes only that field's value and clears only
\* that field's recorded error: the values and recorded errors of the other
\* two fields, all touched flags and the submission status stay as they were.
C24_ChangeTouchesOneField ==
    [][StepOf("change") =>
          \E f \in Fields :
             /\ ErrorOf(validation'.errors, f) = Undefined
             /\ \A g \in Fields \ {f} :
                   /\ formData'[g] = formData[g]
                   /\ ErrorOf(validation'.errors, g) = ErrorOf(validation.errors, g)
             /\ touched' = touched
             /\ status' = status]_vars

C24_Witness ==
    /\ lastEvent = "change" /\ touched = AllTouched
    /\ formData.name = <<"a", "a">> /\ getFieldError("name") = Undefined
    /\ "name" \in DOMAIN validation.errors
    /\ getFieldError("email") # Undefined /\ getFieldError("message") # Undefined

(***************************************************************************)
(* lib/performance: detectDeviceCapability, getPerformanceConfig           *)
(***************************************************************************)

QualityLevels == {"high", "medium", "low"}

QUALITY_PRESETS ==
    [high |-> [maxNodes |-> 8, geometryDetail |-> 16, enableAnimations |-> TRUE,
               enableGlow |-> TRUE, targetFPS |-> 60],
     medium |-> [maxNodes |-> 6, geometryDetail |-> 12, enableAnimations |-> TRUE,
                 enableGlow |-> FALSE, targetFPS |-> 30],
     low |-> [maxNodes |-> 4, geometryDetail |-> 8, enableAnimations |-> FALSE,
              enableGlow |-> FALSE, targetFPS |-> 30]]

NoConfig == [maxNodes |-> 0, geometryDetail |-> 0, enableAnimations |-> FALSE,
             enableGlow |-> FALSE, targetFPS |-> 0]

\* A user agent is the sequence of its product words; the /i flag makes the
\* test compare them without regard to case.
ToLower(w) ==
    CASE w \in {"Android", "ANDROID"} -> "android"
      [] w \in {"iPhone", "IPHONE"} -> "iphone"
      [] w = "iPad" -> "ipad"
      [] w = "Opera Mini" -> "opera mini"
      [] w = "BlackBerry" -> "blackberry"
      [] OTHER -> w
MobileWords ==
    {"android", "webos", "iphone", "ipad", "ipod", "blackberry", "iemobile",
     "opera mini"}
\* /Android|webOS|iPhone|iPad|iPod|BlackBerry|IEMobile|Opera Mini/i.test(ua)
IsMobile(ua) == \E i \in 1..Len(ua) : ToLower(ua[i]) \in MobileWords

UserAgents ==
    {<<"Mozilla", "Windows", "Chrome">>,
     <<"Mozilla", "Macintosh", "Safari">>,
     <<"Mozilla", "Linux", "Android", "Chrome">>,
     <<"Mozilla", "iPhone", "Safari">>,
     <<"mozilla", "ANDROID">>,
     <<"Opera Mini">>,
     <<>>}

\* navigator.hardwareConcurrency and navigator.deviceMemory (in GB): 0 stands
\* for a property the browser does not report (undefined is falsy, as 0 is).
MaxCores == 9
MaxMemory == 9

CoresDefaultFour(env) == IF env.cores = 0 THEN 4 ELSE env.cores
\* navigator.hardwareConcurrency || 2
Cores(env) == IF env.cores = 0 THEN 2 ELSE env.cores
\* navigator.deviceMemory || 4
Memory(env) == IF env.memory = 0 THEN 4 ELSE env.memory
\* canvas.getContext('webgl') || canvas.getContext('experimental-webgl')
Gl(env) == env.webgl \/ env.experimentalWebgl

detectDeviceCapability(env) ==
    IF ~env.hasWindow THEN "medium"
    ELSE IF ~Gl(env) THEN "low"
    ELSE IF IsMobile(env.userAgent) \/ Cores(env) <= 2 \/ Memory(env) < 4 THEN "low"
    ELSE IF Cores(env) >= 8 /\ Memory(env) >= 8 THEN "high"
    ELSE "medium"

\* QUALITY_PRESETS[quality || detectDeviceCapability()]
getPerformanceConfig(quality, env) ==
    QUALITY_PRESETS[IF quality = Undefined THEN detectDeviceCapability(env) ELSE quality]

DeviceInit ==
    /\ \E w, g, x \in BOOLEAN : \E c \in 0..MaxCores : \E m \in 0..MaxMemory :
         \E ua \in UserAgents :
            dEnv = [hasWindow |-> w, webgl |-> g, experimentalWebgl |-> x,
                    cores |-> c, memory |-> m, userAgent |-> ua]
    /\ dArg = Undefined /\ dLevel = "none" /\ dConfig = NoConfig

DetectCall ==
    /\ dLevel = "none"
    /\ dLevel' = detectDeviceCapability(dEnv)
    /\ UNCHANGED <<dEnv, dArg, dConfig>>
    /\ UNCHANGED notDevice

ConfigCall ==
    /\ dConfig = NoConfig
    /\ \E q \in QualityLevels \cup {Undefined} :
         /\ dArg' = q
         /\ dConfig' = getPerformanceConfig(q, dEnv)
    /\ UNCHANGED <<dEnv, dLevel>>
    /\ UNCHANGED notDevice

DeviceNext == DetectCall \/ ConfigCall

\* ---- claims on the device capability ----

\* the level the four inputs determine
LevelOf(noGl, mobile, cores, memory) ==
    IF noGl \/ mobile \/ cores <= 2 \/ memory < 4 THEN "low"
    ELSE IF cores >= 8 /\ memory >= 8 THEN "high"
    ELSE "medium"

ExpectedLevel ==
    IF ~dEnv.hasWindow THEN "medium"
    ELSE LevelOf(~dEnv.webgl /\ ~dEnv.experimentalWebgl,
                 IsMobile(dEnv.userAgent),
                 IF dEnv.cores = 0 THEN 2 ELSE dEnv.cores,
                 IF dEnv.memory = 0 THEN 4 ELSE dEnv.memory)

\* C12: detectDeviceCapability returns 'medium' without a window, and otherwise
\* the level fixed by (WebGL available, cores, memory, mobile user agent), with
\* cores read as 2 and memory as 4 when unreported: 'low' without WebGL, on a
\* mobile device, with cores <= 2 or memory < 4; else 'high' with cores >= 8
\* and memory >= 8; else 'medium'.  getPerformanceConfig returns the preset of
\* the level it is given, or of the detected level when given none.
C12_DeviceCapability ==
    /\ dLevel # "none" => dLevel = ExpectedLevel
    /\ dConfig # NoConfig =>
         dConfig = QUALITY_PRESETS[IF dArg = Undefined THEN ExpectedLevel ELSE dArg]

C12_Witness ==
    /\ dEnv.hasWindow /\ dEnv.webgl /\ ~IsMobile(dEnv.userAgent)
    /\ dEnv.cores = 0 /\ dEnv.memory = 8
    /\ dLevel = "low" /\ dArg = Undefined /\ dConfig = QUALITY_PRESETS["low"]

(***************************************************************************)
(* useAdaptiveQuality: the FPS monitor                                     *)
(***************************************************************************)

\* the time between two animation frames, in ms
FrameTimes == {25, 40, 100, 1000}
SampleInterval == 1000
InitialFps == 60

AdaptedQualityInclusive(n, q) ==
    IF n <= 20 /\ q # "low" THEN "low"
    ELSE IF n <= 30 /\ q = "high" THEN "medium"
    ELSE q
\* the quality after a sample of n frames taken at quality q
AdaptedQuality(n, q) ==
    IF n < 20 /\ q # "low" THEN "low"
    ELSE IF n < 30 /\ q = "high" THEN "medium"
    ELSE q

\* useAdaptiveQuality(initialQuality): the three useState initial values and
\* the first run of the effect
AdaptiveInit ==
    /\ aqQuality \in QualityLevels
    /\ aqConfig = getPerformanceConfig(aqQuality, dEnv)
    /\ aqFps = InitialFps
    /\ frameCount = 0 /\ elapsed = 0
    /\ aqPrev = aqQuality /\ aqEvent = "mount"

\* measureFPS(), one animation frame.  The two state setters of a
\* sample are applied in one render; a change of quality re-runs the effect,
\* which starts counting from zero as the sample itself does.
measureFPS ==
    \E dt \in FrameTimes :
        /\ aqPrev' = aqQuality
        /\ IF elapsed + dt >= SampleInterval
           THEN /\ aqFps' = frameCount + 1
                /\ aqQuality' = AdaptedQuality(frameCount + 1, aqQuality)
                /\ aqConfig' =
                     IF aqQuality' # aqQuality
                     THEN getPerformanceConfig(aqQuality', dEnv)
                     ELSE aqConfig
                /\ frameCount' = 0 /\ elapsed' = 0
                /\ aqEvent' = "sample"
           ELSE /\ frameCount' = frameCount + 1
                /\ elapsed' = elapsed + dt
                /\ aqEvent' = "frame"
                /\ UNCHANGED <<aqQuality, aqConfig, aqFps>>
        /\ UNCHANGED notAdaptive

\* setQuality(newQuality), the setter the hook hands out
setQuality ==
    \E q \in QualityLevels :
        /\ aqPrev' = aqQuality
        /\ aqQuality' = q
        /\ aqConfig' = getPerformanceConfig(q, dEnv)
        /\ aqEvent' = "setQuality"
        /\ IF q # aqQuality
           THEN frameCount' = 0 /\ elapsed' = 0
           ELSE UNCHANGED <<frameCount, elapsed>>
        /\ UNCHANGED aqFps
        /\ UNCHANGED notAdaptive

AdaptiveNext == measureFPS \/ setQuality

\* ---- claims on the FPS monitor ----

QualityRank(q) == CASE q = "low" -> 0 [] q = "medium" -> 1 [] q = "high" -> 2

\* C13: the FPS monitor changes quality only at a one-second sample and only
\* downward: a sample of fewer than 20 frames gives 'low', a sample of 20 to 29
\* frames lowers 'high' to 'medium', any other sample and any other frame leave
\* quality as it was; config is always the preset of the current quality.
C13_MonitorOnlyLowers ==
    /\ aqEvent = "frame" => aqQuality = aqPrev
    /\ aqEvent = "sample" =>
         /\ aqFps < 20 => aqQuality = "low"
         /\ (aqFps >= 20 /\ aqFps <= 29) =>
                aqQuality = (IF aqPrev = "high" THEN "medium" ELSE aqPrev)
         /\ aqFps >= 30 => aqQuality = aqPrev
         /\ QualityRank(aqQuality) <= QualityRank(aqPrev)
    /\ aqConfig = QUALITY_PRESETS[aqQuality]

C13_Witness ==
    /\ aqEvent = "sample" /\ aqFps = 20
    /\ aqPrev = "high" /\ aqQuality = "medium"
    /\ aqConfig = QUALITY_PRESETS["medium"]

(***************************************************************************)
(* GitHubActivity.fetchGitHubData: the request to /api/github and its      *)
(* timeout                                                                 *)
(***************************************************************************)

TimeoutMs == 15000
TickMs == 1000

TimedOut == "Request timed out. Check your connection."
RateLimited == "GitHub API rate limit exceeded. Try again later."
FailedToFetch == "Failed to fetch data"
\* message of the TypeError a failed fetch rejects with
NetworkError == "Failed to fetch"
\* message of the SyntaxError res.json() rejects with
ParseError == "Unexpected token"
\* the `error` field of the handler's error bodies
HandlerError == "error of the handler"

\* statuses /api/github answers with
ApiStatuses == {200, 400, 404, 429, 500}
\* what reading the body gives: a JSON value with or without an `error`
\* field, or a rejection
BodyOutcomes == {"json", "jsonNoError", "invalid"}

ActivityInit ==
    /\ gaPc = "idle" /\ loading = TRUE /\ gaError = Null /\ gaStats = FALSE
    /\ gaRes = 0 /\ gaClock = 0 /\ timerArmed = FALSE

\* the call up to `await fetch(...)`
fetchGitHubData ==
    /\ gaPc \in {"idle", "done"}
    /\ loading' = TRUE /\ gaError' = Null
    /\ timerArmed' = TRUE /\ gaClock' = 0
    /\ gaRes' = 0
    /\ gaPc' = "awaitFetch"
    /\ UNCHANGED gaStats
    /\ UNCHANGED notActivity

\* time passes while the timeout is pending
Tick ==
    /\ timerArmed /\ gaClock < TimeoutMs
    /\ gaClock' = gaClock + TickMs
    /\ UNCHANGED <<gaPc, loading, gaError, gaStats, gaRes, timerArmed>>
    /\ UNCHANGED notActivity

\* the timeout fires: controller.abort() rejects the fetch with an AbortError;
\* catch and finally run
TimeoutFires ==
    /\ timerArmed /\ gaClock >= TimeoutMs
    /\ gaPc = "awaitFetch"
    /\ timerArmed' = FALSE
    /\ gaError' = TimedOut /\ loading' = FALSE
    /\ gaPc' = "done"
    /\ UNCHANGED <<gaStats, gaRes, gaClock>>
    /\ UNCHANGED notActivity

\* fetch rejects (network error): catch and finally run; the timer is not
\* cleared and later aborts a request that is over
FetchRejects ==
    /\ gaPc = "awaitFetch"
    /\ gaError' = NetworkError /\ loading' = FALSE
    /\ gaPc' = "done"
    /\ UNCHANGED <<gaStats, gaRes, gaClock, timerArmed>>
    /\ UNCHANGED notActivity

\* fetch resolves with the response head: clearTimeout, then `await res.json()`
FetchResolves ==
    /\ gaPc = "awaitFetch"
    /\ \E st \in ApiStatuses : gaRes' = st
    /\ timerArmed' = FALSE
    /\ gaPc' = "awaitBody"
    /\ UNCHANGED <<loading, gaError, gaStats, gaClock>>
    /\ UNCHANGED notActivity

\* res.json() settles: the rest of the try block, catch and finally
BodySettles ==
    /\ gaPc = "awaitBody"
    /\ \E b \in BodyOutcomes :
         /\ gaError' =
              IF b = "invalid" THEN ParseError
              ELSE IF Ok(gaRes) THEN gaError
              ELSE IF gaRes = 429 THEN RateLimited
              ELSE IF b = "json" THEN HandlerError
              ELSE FailedToFetch
         /\ gaStats' = IF b # "invalid" /\ Ok(gaRes) THEN TRUE ELSE gaStats
    /\ loading' = FALSE
    /\ gaPc' = "done"
    /\ UNCHANGED <<gaRes, gaClock, timerArmed>>
    /\ UNCHANGED notActivity

\* the timer of a request that fetch rejected on its own fires later; the
\* abort has nothing left to reject
StaleTimeoutFires ==
    /\ timerArmed /\ gaClock >= TimeoutMs
    /\ gaPc = "done"
    /\ timerArmed' = FALSE
    /\ UNCHANGED <<gaPc, loading, gaError, gaStats, gaRes, gaClock>>
    /\ UNCHANGED notActivity

ActivityNext ==
    \/ fetchGitHubData \/ Tick \/ TimeoutFires \/ FetchRejects
    \/ FetchResolves \/ BodySettles \/ StaleTimeoutFires

\* Timers fire and continuations run; the network owes nothing: neither the
\* response head nor the rest of the body has to arrive.
ActivityFairness ==
    /\ WF_vars(Tick) /\ WF_vars(TimeoutFires)

\* ---- claims on fetchGitHubData ----

\* C14: every call of fetchGitHubData terminates with loading = false
\* (whatever the outcome), and a request not answered within 15 seconds is
\* aborted with the error 'Request timed out. Check your connection.'.
C14_CallTerminates ==
    (gaPc = "awaitFetch") ~> (gaPc = "done" /\ loading = FALSE)

(***************************************************************************)
(* Blogs section: fetchBlogs over the dev.to handler                       *)
(***************************************************************************)

MaxArticles == 4
MaxPosts == 4
ArticleIds == {1, 2}
PublishDays == {1, 2, 3}

SliceLast(s, k) == SubSeq(s, Len(s) - Min(k, Len(s)) + 1, Len(s))
\* s.slice(0, k) for k >= 0
Slice(s, k) == SubSeq(s, 1, Min(k, Len(s)))

Loading == [blogs |-> <<>>, loading |-> TRUE, error |-> Null]

BlogsInit ==
    /\ \E n \in 0..MaxArticles :
         \E ids \in [1..n -> ArticleIds], days \in [1..n -> PublishDays] :
            bArticles = [i \in 1..n |-> Article(ids[i], days[i])]
    /\ bMaxPosts \in 0..MaxPosts
    /\ bResponse = NoResponse
    /\ bState = Loading

\* /api/devto answers the request of fetchBlogs
DevtoAnswers ==
    /\ bResponse = NoResponse
    /\ \/ bResponse' = Json([blogs |-> Blogs(bArticles)], 200)
       \/ \E st \in UpstreamStatuses : ~Ok(st) /\ bResponse' = DevtoErrorResponse(st)
    /\ UNCHANGED <<bArticles, bMaxPosts, bState>>
    /\ UNCHANGED notBlogs

\* fetchBlogs after `await fetch(/api/devto?...)`
fetchBlogs ==
    /\ bResponse # NoResponse /\ bState.loading
    /\ bState' =
         IF Ok(bResponse.status)
         THEN [blogs |-> Slice(bResponse.body.blogs, bMaxPosts),
               loading |-> FALSE, error |-> Null]
         ELSE [blogs |-> <<>>, loading |-> FALSE, error |-> bResponse.body.error]
    /\ UNCHANGED <<bArticles, bMaxPosts, bResponse>>
    /\ UNCHANGED notBlogs

BlogsNext == DevtoAnswers \/ fetchBlogs

\* ---- claims on the blogs ----

Served == bResponse.status = 200
Shown == Served /\ ~bState.loading

\* blog b carries the fields of article a under their camelCase names
CamelCaseOf(b, a) ==
    /\ b.id = a.id /\ b.title = a.title /\ b.description = a.description
    /\ b.url = a.url /\ b.coverImage = a.cover_image
    /\ b.socialImage = a.social_image /\ b.publishedAt = a.published_at
    /\ b.readingTimeMinutes = a.reading_time_minutes /\ b.tags = a.tag_list

\* C15: for n upstream articles the dev.to handler returns min(n, 3) blogs,
\* blog i being the camelCase transform of article i, and the Blogs section
\* keeps the first min(length, maxPosts) of them in the same order.
C15_FirstThreeInOrder ==
    /\ Served =>
         LET blogs == bResponse.body.blogs IN
         /\ Len(blogs) = Min(Len(bArticles), 3)
         /\ \A i \in 1..Len(blogs) : CamelCaseOf(blogs[i], bArticles[i])
    /\ Shown =>
         LET blogs == bResponse.body.blogs IN
         /\ Len(bState.blogs) = Min(Len(blogs), bMaxPosts)
         /\ \A i \in 1..Len(bState.blogs) : bState.blogs[i] = blogs[i]

C15_Witness ==
    /\ Shown /\ Len(bArticles) = 4 /\ bMaxPosts = 2
    /\ Len(bResponse.body.blogs) = 3 /\ Len(bState.blogs) = 2
    /\ bArticles[1].id # bArticles[2].id

\* publication dates never increase along the list (most recent first)
MostRecentFirst(dates) ==
    \A i \in 1..(Len(dates) - 1) : dates[i] >= dates[i + 1]
UpstreamDates == [i \in 1..Len(bArticles) |-> bArticles[i].published_at]
ShownDates == [i \in 1..Len(bState.blogs) |-> bState.blogs[i].publishedAt]

NoMax == -1
MinWidth == -2
MaxWidth == 1030

Breakpoints == {"mobile", "tablet", "desktop"}

breakpoints ==
    <<[name |-> "mobile", minWidth |-> 0, maxWidth |-> 767, cssClass |-> ""],
      [name |-> "tablet", minWidth |-> 768, maxWidth |-> 1023, cssClass |-> "md:"],
      [name |-> "desktop", minWidth |-> 1024, maxWidth |-> NoMax, cssClass |-> "lg:"]>>

\* breakpoints.find(b => b.name === breakpoint)!
Find(name) ==
    breakpoints[CHOOSE i \in 1..Len(breakpoints) :
                    /\ breakpoints[i].name = name
                    /\ \A j \in 1..(i - 1) : breakpoints[j].name # name]

getBreakpointInclusive(width) ==
    IF width <= 768 THEN "mobile"
    ELSE IF width <= 1024 THEN "tablet"
    ELSE "desktop"
getBreakpoint(width) ==
    IF width < 768 THEN "mobile"
    ELSE IF width < 1024 THEN "tablet"
    ELSE "desktop"

getBreakpointConfig(width) == Find(getBreakpoint(width))

matchesBreakpointBelowMax(width, breakpoint) ==
    LET config == Find(breakpoint)
    IN  IF config.maxWidth = NoMax THEN width >= config.minWidth
        ELSE width >= config.minWidth /\ width < config.maxWidth
matchesBreakpoint(width, breakpoint) ==
    LET config == Find(breakpoint)
    IN  IF config.maxWidth = NoMax THEN width >= config.minWidth
        ELSE width >= config.minWidth /\ width <= config.maxWidth

BreakpointsInit ==
    /\ bpWidth \in MinWidth..MaxWidth
    /\ bpDone = {} /\ bpName = "none" /\ bpConfig = breakpoints[1] /\ bpMatching = {}

getBreakpointCall ==
    /\ "get" \notin bpDone
    /\ bpName' = getBreakpoint(bpWidth)
    /\ bpDone' = bpDone \cup {"get"}
    /\ UNCHANGED <<bpWidth, bpConfig, bpMatching>>
    /\ UNCHANGED notBreakpoints

getBreakpointConfigCall ==
    /\ "config" \notin bpDone
    /\ bpConfig' = getBreakpointConfig(bpWidth)
    /\ bpDone' = bpDone \cup {"config"}
    /\ UNCHANGED <<bpWidth, bpName, bpMatching>>
    /\ UNCHANGED notBreakpoints

\* matchesBreakpoint(width, b) for each of the three breakpoints
matchesBreakpointCalls ==
    /\ "match" \notin bpDone
    /\ bpMatching' = {b \in Breakpoints : matchesBreakpoint(bpWidth, b)}
    /\ bpDone' = bpDone \cup {"match"}
    /\ UNCHANGED <<bpWidth, bpName, bpConfig>>
    /\ UNCHANGED notBreakpoints

BreakpointsNext == getBreakpointCall \/ getBreakpointConfigCall \/ matchesBreakpointCalls

\* ---- claims on the breakpoints ----

C18_ExactlyOneMatches ==
    bpWidth >= 0 =>
        /\ "match" \in bpDone =>
              /\ Cardinality(bpMatching) = 1
              /\ bpMatching = {getBreakpoint(bpWidth)}
        /\ "config" \in bpDone =>
              /\ \E i \in 1..Len(breakpoints) : bpConfig = breakpoints[i]
              /\ bpConfig.minWidth <= bpWidth
              /\ bpConfig.maxWidth = NoMax \/ bpWidth <= bpConfig.maxWidth
              /\ bpConfig.name = getBreakpoint(bpWidth)

C18_Witness ==
    /\ bpDone = {"get", "config", "match"} /\ bpWidth = 767
    /\ bpMatching = {"mobile"} /\ bpConfig = breakpoints[1]

(***************************************************************************)
(* GitHub handler: totalStars and topLanguages as functions of the repos   *)
(***************************************************************************)

MaxPerLanguage == 2
LanguageNames == <<"TypeScript", "Java", "Python", "Go", "Rust", "C">>
Rotations == {0, 2, 5}
StarSeeds == {0, 1, 2}

RECURSIVE Flatten(_)
Flatten(ss) == IF ss = <<>> THEN <<>> ELSE ss[1] \o Flatten(Tail(ss))

\* the k-th language name, counting from the one after `rot`
LanguageAt(k, rot) == LanguageNames[((k + rot - 1) % Len(LanguageNames)) + 1]

\* repos of one language after another
Blocked(counts, rot) ==
    Flatten([k \in 1..Len(LanguageNames) |->
                Repeat(LanguageAt(k, rot), counts[((k + rot - 1) % Len(LanguageNames)) + 1])])
\* one repo of each language in turn, for as long as the language has repos left
Interleaved(counts, rot) ==
    Flatten([j \in 1..MaxPerLanguage |->
        Flatten([k \in 1..Len(LanguageNames) |->
            IF counts[((k + rot - 1) % Len(LanguageNames)) + 1] >= j
            THEN <<LanguageAt(k, rot)>> ELSE <<>>])])

\* the repos with the given languages; stars vary with the position
ReposOf(langs, seed) ==
    [i \in 1..Len(langs) |-> Repo((i * seed) % 3, langs[i])]

NoStats == [computed |-> FALSE, totalStars |-> 0, topLanguages |-> <<>>]

RepoStatsInit ==
    /\ \E counts \in [1..Len(LanguageNames) -> 0..MaxPerLanguage] :
         \E rot \in Rotations, seed \in StarSeeds, unset \in {<<>>, <<Null>>, <<"", Null>>} :
            \/ rsRepos = ReposOf(unset \o Blocked(counts, rot), seed)
            \/ rsRepos = ReposOf(Interleaved(counts, rot) \o unset, seed)
    /\ rsStats = NoStats

\* lines 76-89 of the handler
CalculateStats ==
    /\ ~rsStats.computed
    /\ rsStats' = [computed |-> TRUE,
                   totalStars |-> TotalStars(rsRepos),
                   topLanguages |-> TopLanguages(rsRepos)]
    /\ UNCHANGED rsRepos
    /\ UNCHANGED notRepoStats

RepoStatsNext == CalculateStats

\* ---- claims on the repo figures ----

ReposWith(lang) == {i \in 1..Len(rsRepos) : rsRepos[i].language = lang}
Top == rsStats.topLanguages
Listed == {Top[i].name : i \in 1..Len(Top)}
UsedLanguages == {rsRepos[i].language : i \in 1..Len(rsRepos)} \ {Null, ""}

\* C19: topLanguages has at most 5 entries in non-increasing order of count;
\* the count of an entry is the number of fetched repos in that language (a
\* repo without language counts nowhere); no language with a strictly higher
\* count than a listed one is left out; totalStars is the sum of the
\* stargazers_count of all fetched repos.
C19_TopLanguagesAndStars ==
    rsStats.computed =>
        /\ Len(Top) <= 5
        /\ \A i \in 1..(Len(Top) - 1) : Top[i].count >= Top[i + 1].count
        /\ \A i \in 1..Len(Top) :
              /\ Top[i].name \in UsedLanguages
              /\ Top[i].count = Cardinality(ReposWith(Top[i].name))
              /\ \A j \in 1..Len(Top) : Top[j].name = Top[i].name => j = i
        /\ \A lang \in UsedLanguages :
              (\E i \in 1..Len(Top) : Cardinality(ReposWith(lang)) > Top[i].count)
                  => lang \in Listed
        /\ rsStats.totalStars =
              SumSeq([i \in 1..Len(rsRepos) |-> rsRepos[i].stargazers_count])

C19_Witness ==
    /\ rsStats.computed
    /\ Cardinality(UsedLanguages) = 6 /\ ReposWith(Null) # {}
    /\ Len(Top) = 5 /\ Top[1].count = 2 /\ Top[3].count = 2 /\ Top[4].count = 1
    /\ \E lang \in UsedLanguages : lang \notin Listed
    /\ rsStats.totalStars > 0

(***************************************************************************)
(* GitHub handler: the streaks as functions of the contribution list       *)
(***************************************************************************)

MaxContribs == 4
MaxDay == 5
ContribCounts == {0, 3}

NoStreaks == [computed |-> FALSE, currentStreak |-> 0, longestStreak |-> 0]

\* the contributions API lists each day once, in no particular order
StreaksInit ==
    /\ \E n \in 0..MaxContribs :
         \E dates \in [1..n -> 1..MaxDay], counts \in [1..n -> ContribCounts] :
            /\ \A i, j \in 1..n : dates[i] = dates[j] => i = j
            /\ sContribs = [i \in 1..n |-> Day(dates[i], counts[i])]
    /\ sToday \in Todays
    /\ sStreaks = NoStreaks

\* any list of entries: a date may occur more than once
AnyDatesInit ==
    /\ \E n \in 0..MaxContribs :
         \E dates \in [1..n -> 1..MaxDay], counts \in [1..n -> ContribCounts] :
            sContribs = [i \in 1..n |-> Day(dates[i], counts[i])]
    /\ sToday \in Todays
    /\ sStreaks = NoStreaks

\* lines 117-144 of the handler
CalculateStreaks ==
    /\ ~sStreaks.computed
    /\ sStreaks' = [computed |-> TRUE,
                    currentStreak |-> CurrentStreak(sContribs, sToday),
                    longestStreak |-> LongestStreak(sContribs, sToday)]
    /\ UNCHANGED <<sContribs, sToday>>
    /\ UNCHANGED notStreaks

StreaksNext == CalculateStreaks

\* ---- claims on the streaks ----

\* the days listed that are not after today, and the entry listed for a day
KeptDays == {sContribs[i].date : i \in 1..Len(sContribs)} \cap (0..sToday)
EntryOn(d) == CHOOSE i \in 1..Len(sContribs) : sContribs[i].date = d
DaysBetween(a, b) == {d \in KeptDays : a <= d /\ d <= b}
\* the entries from day a to day b, adjacent once sorted by date, all with a
\* positive count
IsRun(a, b) == a <= b /\ \A d \in DaysBetween(a, b) : sContribs[EntryOn(d)].count > 0
RunLengths ==
    {Cardinality(DaysBetween(r[1], r[2])) :
        r \in {q \in KeptDays \X KeptDays : IsRun(q[1], q[2])}}

\* C20: longestStreak is the length of the longest run of adjacent entries with
\* a positive count in the contribution list once the entries dated after today
\* are dropped and the rest sorted by date ascending; 0 when there is none.
C20_LongestStreak ==
    sStreaks.computed =>
        /\ \A n \in RunLengths : n <= sStreaks.longestStreak
        /\ IF RunLengths = {} THEN sStreaks.longestStreak = 0
           ELSE sStreaks.longestStreak \in RunLengths

C20_Witness ==
    /\ sStreaks.computed /\ sStreaks.longestStreak = 2
    /\ Len(sContribs) = 4 /\ sToday = 3
    /\ sContribs[1] = Day(3, 3) /\ sContribs[2] = Day(1, 0)
    /\ sContribs[3] = Day(2, 3) /\ sContribs[4] = Day(4, 3)

\* the kept days on which the backward count stops: a zero count on a day
\* other than today
BreakDays == {d \in KeptDays : sContribs[EntryOn(d)].count = 0 /\ d # sToday}

\* C21: currentStreak is the number of entries with a positive count met while
\* going backwards from the most recent entry dated today or earlier, up to the
\* first zero-count entry not dated today: a zero count today does not end the
\* streak, a zero count on an earlier day does, and entries dated after today
\* have no effect.
C21_CurrentStreak ==
    sStreaks.computed =>
        sStreaks.currentStreak =
            Cardinality({d \in KeptDays :
                            /\ sContribs[EntryOn(d)].count > 0
                            /\ \A b \in BreakDays : d > b})

C21_Witness ==
    /\ sStreaks.computed /\ sStreaks.currentStreak = 1 /\ sToday = 3
    /\ sContribs = <<Day(4, 3), Day(3, 0), Day(1, 0), Day(2, 3)>>

EntriesDatedToday == {i \in 1..Len(sContribs) : sContribs[i].date = sToday}

\* C22 as stated: for every contribution list (any dates, any non-negative
\* counts) currentStreak is never greater than longestStreak.
C22_CurrentAtMostLongest ==
    sStreaks.computed => sStreaks.currentStreak <= sStreaks.longestStreak

\* C22, amended: currentStreak is never greater than longestStreak for every
\* contribution list with at most one entry dated today (the current streak
\* skips a zero count dated today, the longest streak is reset by it).
C22_CurrentAtMostLongestOneToday ==
    (sStreaks.computed /\ Cardinality(EntriesDatedToday) <= 1) =>
        sStreaks.currentStreak <= sStreaks.longestStreak

C22_Witness ==
    /\ sStreaks.computed /\ sToday = 3
    /\ sContribs = <<Day(3, 0), Day(2, 3), Day(2, 3), Day(1, 0)>>
    /\ sStreaks.currentStreak = 2 /\ sStreaks.longestStreak = 2

(***************************************************************************)
(* NetworkGraph: visibleNodes and connections                              *)
(***************************************************************************)

Node(id, position, connections) ==
    [id |-> id, position |-> position, connections |-> connections]

\* positions are in halves of a unit
NETWORK_NODES ==
    <<Node("api-gateway", <<0, 3, 0>>, <<"auth", "users", "data">>),
      Node("auth", <<-4, 1, 1>>, <<"users", "cache">>),
      Node("users", <<4, 1, -1>>, <<"db", "cache">>),
      Node("data", <<0, 0, 2>>, <<"db", "queue">>),
      Node("db", <<-2, -3, 0>>, <<"cache">>),
      Node("cache", <<2, -2, 1>>, <<>>),
      Node("queue", <<4, -3, -1>>, <<"workers">>),
      Node("workers", <<0, -4, 0>>, <<>>)>>

\* the maxNodes values a performanceConfig prop can carry
MaxNodesProp == 10

VisibleNodesAll(maxNodes) == NETWORK_NODES
\* NETWORK_NODES.slice(0, performanceConfig.maxNodes)
VisibleNodes(maxNodes) == Slice(NETWORK_NODES, maxNodes)

\* visibleNodes.find((n) => n.id === targetId): the index, 0 for undefined
FindNode(nodes, targetId) ==
    IF \E i \in 1..Len(nodes) : nodes[i].id = targetId
    THEN CHOOSE i \in 1..Len(nodes) :
            /\ nodes[i].id = targetId
            /\ \A j \in 1..(i - 1) : nodes[j].id # targetId
    ELSE 0

\* the connections one visible node contributes, in the order of its targets
ConnectionsFrom(nodes, node) ==
    LET visibleIds == {nodes[i].id : i \in 1..Len(nodes)}
        Line(targetId) ==
            IF targetId \notin visibleIds \/ FindNode(nodes, targetId) = 0 THEN <<>>
            ELSE <<[start |-> node.position,
                    end |-> nodes[FindNode(nodes, targetId)].position,
                    key |-> <<node.id, targetId>>]>>
    IN  Flatten([j \in 1..Len(node.connections) |-> Line(node.connections[j])])

\* the connections memo: visibleNodes.forEach(node => node.connections.forEach(...))
Connections(nodes) ==
    Flatten([i \in 1..Len(nodes) |-> ConnectionsFrom(nodes, nodes[i])])

GraphInit ==
    /\ ngMaxNodes \in 0..MaxNodesProp
    /\ ngVisible = <<>> /\ ngConns = <<>> /\ ngFresh = FALSE

\* the parent passes a performanceConfig with another maxNodes
PropsChange ==
    /\ \E k \in 0..MaxNodesProp : k # ngMaxNodes /\ ngMaxNodes' = k
    /\ ngFresh' = FALSE
    /\ UNCHANGED <<ngVisible, ngConns>>
    /\ UNCHANGED notGraph

\* NetworkGraphContent renders: both memos are computed
RenderGraph ==
    /\ ~ngFresh
    /\ ngVisible' = VisibleNodes(ngMaxNodes)
    /\ ngConns' = Connections(ngVisible')
    /\ ngFresh' = TRUE
    /\ UNCHANGED ngMaxNodes
    /\ UNCHANGED notGraph

GraphNext == PropsChange \/ RenderGraph

\* ---- claims on the network graph ----

NodeIds == {NETWORK_NODES[i].id : i \in 1..Len(NETWORK_NODES)}
ShownIds == {ngVisible[i].id : i \in 1..Len(ngVisible)}
FirstIds(k) == {NETWORK_NODES[i].id : i \in 1..k}
\* the (node, target) pairs of the table with both ends among the first k nodes
PairsWithin(k) ==
    UNION {{<<NETWORK_NODES[i].id, NETWORK_NODES[i].connections[j]>> :
                j \in {m \in 1..Len(NETWORK_NODES[i].connections) :
                          NETWORK_NODES[i].connections[m] \in FirstIds(k)}} :
           i \in 1..k}
PositionOf(id) ==
    NETWORK_NODES[CHOOSE i \in 1..Len(NETWORK_NODES) : NETWORK_NODES[i].id = id].position

\* C25: for every maxNodes from 0 to 8 the graph renders exactly the first
\* maxNodes entries of the 8-node table and one connection line for exactly
\* the (node, target) pairs of the table with both ends rendered; a line joins
\* the positions of its two rendered nodes, and every target id of the table
\* names a node of the table.
C25_VisibleNodesAndLines ==
    /\ Len(NETWORK_NODES) = 8
    /\ \A i \in 1..Len(NETWORK_NODES) :
          \A j \in 1..Len(NETWORK_NODES[i].connections) :
              NETWORK_NODES[i].connections[j] \in NodeIds
    /\ (ngFresh /\ ngMaxNodes <= 8) =>
          /\ ngVisible = [i \in 1..ngMaxNodes |-> NETWORK_NODES[i]]
          /\ {ngConns[i].key : i \in 1..Len(ngConns)} = PairsWithin(ngMaxNodes)
          /\ Len(ngConns) = Cardinality(PairsWithin(ngMaxNodes))
          /\ \A i \in 1..Len(ngConns) :
                /\ ngConns[i].key[1] \in ShownIds /\ ngConns[i].key[2] \in ShownIds
                /\ ngConns[i].start = PositionOf(ngConns[i].key[1])
                /\ ngConns[i].end = PositionOf(ngConns[i].key[2])

C25_Witness ==
    /\ ngFresh /\ ngMaxNodes = 4 /\ Len(ngVisible) = 4
    /\ Len(ngConns) = 4
    /\ ngConns[4].key = <<"auth", "users">>

(***************************************************************************)
(* Hero: the 3D canvas or the static background                            *)
(***************************************************************************)

\* BREAKPOINTS.md
MdBreakpoint == 768
HeroWidths == {320, 1024} \cup ((MdBreakpoint - 8)..(MdBreakpoint + 8))

\* window.matchMedia('(min-width: 768px)').matches
MediaQueryMatches(width) == width >= MdBreakpoint

\* useIsMobile(): !useMediaQuery(`(min-width: ${BREAKPOINTS.md}px)`)
isMobile == ~hMatches

shouldShow3D == hMounted /\ hHasWebGL /\ ~isMobile /\ ~hReduced

\* what the background slot of the section holds
HeroBackground == IF shouldShow3D THEN "ThreeCanvas" ELSE "StaticBackground"

\* the first render: the useState initial values
HeroInit ==
    /\ hMounted = FALSE /\ hHasWebGL = TRUE /\ hMatches = FALSE
    /\ hReduced \in BOOLEAN
    /\ hWidth \in HeroWidths
    /\ hGl \in {"context", "null", "throws"}

\* the effects of the first commit, applied in one render: useMediaQuery
\* reads the query and subscribes, Hero sets mounted and probes WebGL
HeroEffects ==
    /\ ~hMounted
    /\ hMatches' = MediaQueryMatches(hWidth)
    /\ hMounted' = TRUE
    /\ hHasWebGL' = (hGl = "context")
    /\ UNCHANGED <<hReduced, hWidth, hGl>>
    /\ UNCHANGED notHero

ResizeUnobserved ==
    /\ \E w \in HeroWidths : w # hWidth /\ hWidth' = w
    /\ UNCHANGED <<hMounted, hHasWebGL, hMatches, hReduced, hGl>>
    /\ UNCHANGED notHero

\* the viewport is resized; once subscribed, the 'change' listener of
\* useMediaQuery stores the new result of the query
Resize ==
    /\ \E w \in HeroWidths : w # hWidth /\ hWidth' = w
    /\ hMatches' = IF hMounted THEN MediaQueryMatches(hWidth') ELSE hMatches
    /\ UNCHANGED <<hMounted, hHasWebGL, hReduced, hGl>>
    /\ UNCHANGED notHero

\* useReducedMotion returns another value
ReducedMotionChanges ==
    /\ hReduced' = ~hReduced
    /\ UNCHANGED <<hMounted, hHasWebGL, hMatches, hWidth, hGl>>
    /\ UNCHANGED notHero

HeroNext == HeroEffects \/ Resize \/ ReducedMotionChanges

\* ---- claims on the Hero background ----

\* C26: Hero renders the 3D canvas only when it is mounted, a WebGL context
\* was obtained, the viewport is at least 768px wide and reduced motion is not
\* requested; in every other state, the first render before any effect
\* included, it renders the static background.
C26_CanvasOnlyWhenCapable ==
    LET capable == hMounted /\ hGl = "context" /\ hWidth >= 768 /\ ~hReduced
    IN  /\ HeroBackground = "ThreeCanvas" => capable
        /\ ~capable => HeroBackground = "StaticBackground"
        /\ ~hMounted => HeroBackground = "StaticBackground"

C26_Witness ==
    /\ HeroBackground = "ThreeCanvas" /\ hMounted /\ hWidth = 768
    /\ hGl = "context" /\ ~hReduced

(***************************************************************************)
(* ThemeProvider                                                           *)
(***************************************************************************)

Themes == {"light", "dark"}
\* what localStorage can hold under the key 'theme' when the page loads
StoredContents == {Null, "", "light", "dark", "system"}
\* `if (stored)`: null and '' are falsy
HasStored(stored) == stored # Null /\ stored # ""
\* the classes the document root can carry before the provider runs
RootClasses == {{}, {"dark"}, {"light"}, {"light", "dark"}}

\* the first render: the useState initial values; its effects are still to run
ThemeInit ==
    /\ theme = "dark" /\ tMounted = FALSE
    /\ tStored \in StoredContents /\ tInitial = tStored
    /\ tSystemLight \in BOOLEAN
    /\ tRoot \in RootClasses
    /\ tPending = TRUE /\ tCalled = FALSE

\* the effects of the first commit: the first one picks the theme, the second
\* one returns at `if (!mounted)`
MountEffects ==
    /\ ~tMounted /\ tPending
    /\ tMounted' = TRUE
    /\ theme' = IF HasStored(tStored) THEN tStored
                ELSE IF tSystemLight THEN "light"
                ELSE theme
    /\ UNCHANGED <<tStored, tSystemLight, tRoot, tPending, tInitial, tCalled>>
    /\ UNCHANGED notTheme

\* the second effect, run after a render in which theme or mounted changed
SyncEffect ==
    /\ tMounted /\ tPending
    /\ tRoot' = (tRoot \ {"light", "dark"}) \cup {theme}
    /\ tStored' = theme
    /\ tPending' = FALSE
    /\ UNCHANGED <<theme, tMounted, tSystemLight, tInitial, tCalled>>
    /\ UNCHANGED notTheme

\* toggleTheme(), offered by the context once mounted
toggleTheme ==
    /\ tMounted
    /\ theme' = IF theme = "dark" THEN "light" ELSE "dark"
    /\ tPending' = TRUE /\ tCalled' = TRUE
    /\ UNCHANGED <<tMounted, tStored, tSystemLight, tRoot, tInitial>>
    /\ UNCHANGED notTheme

\* setTheme(newTheme)
setTheme ==
    /\ tMounted
    /\ \E newTheme \in Themes :
         /\ theme' = newTheme
         /\ tPending' = (tPending \/ newTheme # theme)
    /\ tCalled' = TRUE
    /\ UNCHANGED <<tMounted, tStored, tSystemLight, tRoot, tInitial>>
    /\ UNCHANGED notTheme

ThemeNext == MountEffects \/ SyncEffect \/ toggleTheme \/ setTheme

\* ---- claims on the theme ----

EffectsHaveRun == tMounted /\ ~tPending

\* C27: initialisation uses the stored theme if there is one, else 'light' if
\* the system prefers light, else 'dark', and does not write the default over a
\* stored preference; after any sequence of toggleTheme and setTheme calls,
\* once effects have run, localStorage 'theme' and the single light/dark class
\* of the document root both equal the current theme.
C27_ThemeInSync ==
    /\ (tMounted /\ ~tCalled) =>
          /\ theme = IF HasStored(tInitial) THEN tInitial
                     ELSE IF tSystemLight THEN "light" ELSE "dark"
          /\ HasStored(tInitial) => tStored = tInitial
    /\ EffectsHaveRun =>
          /\ tStored = theme
          /\ tRoot \cap {"light", "dark"} = {theme}

(***************************************************************************)
(* Specifications: one per unit; the other units stay in their initial     *)
(* state.                                                                  *)
(***************************************************************************)

ProxyIdle ==
    /\ route = "github" /\ username = Null /\ pc = "start"
    /\ issued = <<>> /\ inflight = {} /\ upstream = <<>>
    /\ response = NoResponse /\ userData = NoUser /\ repos = <<>>
ValIdle == vData = EmptyForm /\ vResult = NoResult
FormIdle ==
    /\ formData = EmptyForm
    /\ validation = [isValid |-> TRUE, errors |-> <<>>]
    /\ status = "idle" /\ touched = {} /\ hasOnSubmit = TRUE
    /\ pending = FALSE /\ calls = <<>> /\ relay = "none" /\ lastEvent = "mount"
DeviceIdle ==
    /\ dEnv = [hasWindow |-> FALSE, webgl |-> FALSE, experimentalWebgl |-> FALSE,
               cores |-> 0, memory |-> 0, userAgent |-> <<>>]
    /\ dArg = Undefined /\ dLevel = "none" /\ dConfig = NoConfig
AdaptiveIdle ==
    /\ aqQuality = "medium" /\ aqConfig = QUALITY_PRESETS["medium"]
    /\ aqFps = InitialFps /\ frameCount = 0 /\ elapsed = 0
    /\ aqPrev = "medium" /\ aqEvent = "mount"
ActivityIdle ==
    /\ gaPc = "idle" /\ loading = TRUE /\ gaError = Null /\ gaStats = FALSE
    /\ gaRes = 0 /\ gaClock = 0 /\ timerArmed = FALSE
BlogsIdle ==
    /\ bArticles = <<>> /\ bMaxPosts = 3 /\ bResponse = NoResponse /\ bState = Loading
BreakpointsIdle ==
    /\ bpWidth = 0 /\ bpDone = {} /\ bpName = "none"
    /\ bpConfig = breakpoints[1] /\ bpMatching = {}
RepoStatsIdle == rsRepos = <<>> /\ rsStats = NoStats
StreaksIdle == sContribs = <<>> /\ sToday = 3 /\ sStreaks = NoStreaks
GraphIdle ==
    /\ ngMaxNodes = 6 /\ ngVisible = <<>> /\ ngConns = <<>> /\ ngFresh = FALSE
HeroIdle ==
    /\ hMounted = FALSE /\ hHasWebGL = TRUE /\ hMatches = FALSE
    /\ hReduced = FALSE /\ hWidth = 1024 /\ hGl = "context"
ThemeIdle ==
    /\ theme = "dark" /\ tMounted = FALSE /\ tStored = Null /\ tInitial = Null
    /\ tSystemLight = FALSE /\ tRoot = {} /\ tPending = TRUE /\ tCalled = FALSE
UiIdle == GraphIdle /\ HeroIdle /\ ThemeIdle
PureIdle == BlogsIdle /\ BreakpointsIdle /\ RepoStatsIdle /\ StreaksIdle
OthersIdle == AdaptiveIdle /\ ActivityIdle /\ PureIdle /\ UiIdle

InitProxy == ProxyInit /\ ValIdle /\ FormIdle /\ DeviceIdle /\ OthersIdle
InitValidate == ProxyIdle /\ ValInit /\ FormIdle /\ DeviceIdle /\ OthersIdle
InitForm == ProxyIdle /\ ValIdle /\ FormInit /\ DeviceIdle /\ OthersIdle
InitDevice == ProxyIdle /\ ValIdle /\ FormIdle /\ DeviceInit /\ OthersIdle
StagedIdle == ProxyIdle /\ ValIdle /\ FormIdle /\ DeviceIdle
InitAdaptive == StagedIdle /\ AdaptiveInit /\ ActivityIdle /\ PureIdle /\ UiIdle
InitActivity == StagedIdle /\ AdaptiveIdle /\ ActivityInit /\ PureIdle /\ UiIdle
HooksIdle == StagedIdle /\ AdaptiveIdle /\ ActivityIdle /\ UiIdle
AllButUi == StagedIdle /\ AdaptiveIdle /\ ActivityIdle /\ PureIdle
InitGraph == AllButUi /\ GraphInit /\ HeroIdle /\ ThemeIdle
InitHero == AllButUi /\ GraphIdle /\ HeroInit /\ ThemeIdle
InitTheme == AllButUi /\ GraphIdle /\ HeroIdle /\ ThemeInit
InitBlogs == HooksIdle /\ BlogsInit /\ BreakpointsIdle /\ RepoStatsIdle /\ StreaksIdle
InitBreakpoints ==
    HooksIdle /\ BlogsIdle /\ BreakpointsInit /\ RepoStatsIdle /\ StreaksIdle
InitRepoStats ==
    HooksIdle /\ BlogsIdle /\ BreakpointsIdle /\ RepoStatsInit /\ StreaksIdle
InitStreaksAnyDates ==
    HooksIdle /\ BlogsIdle /\ BreakpointsIdle /\ RepoStatsIdle /\ AnyDatesInit
InitStreaks ==
    HooksIdle /\ BlogsIdle /\ BreakpointsIdle /\ RepoStatsIdle /\ StreaksInit

SpecProxy == InitProxy /\ [][ProxyNext]_vars
SpecValidate == InitValidate /\ [][ValNext]_vars
SpecForm == InitForm /\ [][FormNext]_vars
SpecDevice == InitDevice /\ [][DeviceNext]_vars
SpecAdaptive == InitAdaptive /\ [][AdaptiveNext]_vars
SpecBreakpoints == InitBreakpoints /\ [][BreakpointsNext]_vars
SpecRepoStats == InitRepoStats /\ [][RepoStatsNext]_vars
SpecStreaksAnyDates == InitStreaksAnyDates /\ [][StreaksNext]_vars
SpecStreaks == InitStreaks /\ [][StreaksNext]_vars
SpecGraph == InitGraph /\ [][GraphNext]_vars
SpecHero == InitHero /\ [][HeroNext]_vars
SpecTheme == InitTheme /\ [][ThemeNext]_vars
SpecBlogs == InitBlogs /\ [][BlogsNext]_vars
SpecActivity == InitActivity /\ [][ActivityNext]_vars /\ ActivityFairness

====
